---- MODULE Spec2Model ----
(***************************************************************************)
(* Document lifecycle of the State-pattern exercise (DocumentContext and   *)
(* its four state classes).  The current state object is represented by    *)
(* the name its getName() returns; a handler is an operator from the       *)
(* context it is called on to the context it leaves behind, together with  *)
(* the lines it writes to the console.                                     *)
(*                                                                         *)
(* The console marks U+2705 and U+274C of the source are written "[ok]"    *)
(* and "[x]" here, since module text is ASCII.                             *)
(***************************************************************************)
EXTENDS Integers, Sequences, FiniteSets, TLC

VARIABLES state, content, author, console, threw, call, base, denials,
          statusRun, original

docVars == <<state, content, author, console, threw, call, base, denials,
             statusRun, original>>

(* ConfigurationManager: the static instance field (0 while unset), the   *)
(* settings of every manager object constructed so far, the references    *)
(* getInstance has returned to the client, the last call, and the          *)
(* reference through which loadConfig was last called (0 if never).        *)
VARIABLES instance, managers, refs, cfgCall, loadedVia

configVars == <<instance, managers, refs, cfgCall, loadedVia>>

(* Smart home: the light, the command held by the remote control, the     *)
(* command most recently handed to setCommand, and the last call with     *)
(* what it executed and the light it found.                                *)
VARIABLES light, command, lastSet, remoteCall

remoteVars == <<light, command, lastSet, remoteCall>>

(* Weather station: its two measurements, the displays attached (in       *)
(* order), the last call, and for the last setMeasurements call its        *)
(* arguments, the displays attached when it was made and the               *)
(* notifications it delivered, in order.                                   *)
VARIABLES station, displays, weatherCall, measured, notified

weatherVars == <<station, displays, weatherCall, measured, notified>>

(* Data processor: the last processFile call (the path it was given and   *)
(* what the subclass's parseData and generateReport returned) and the      *)
(* steps it ran, in order, each with its argument and its result.          *)
VARIABLES procCall, trace

processorVars == <<procCall, trace>>

(* Computer builder: the Computer objects constructed so far (an object  *)
(* is its position), the builder with the Computer it holds, the objects   *)
(* build() has returned, in order, the argument of the last setter call    *)
(* for each property (<<>> while none was made), and the last call with    *)
(* what it returned.                                                       *)
VARIABLES computers, builder, built, lastValue, builderCall

builderVars == <<computers, builder, built, lastValue, builderCall>>

(* Coffee shop: the decorators wrapped around a SimpleCoffee, innermost    *)
(* first, and the last call with its result.                               *)
VARIABLES coffee, coffeeCall

coffeeVars == <<coffee, coffeeCall>>

(* Media player: the subsystem calls issued so far, in order, and the     *)
(* last facade call with the subsystem calls it issued.                    *)
VARIABLES mediaTrace, mediaCall

mediaVars == <<mediaTrace, mediaCall>>

besideDoc ==
    <<configVars, remoteVars, weatherVars, processorVars,
      builderVars, coffeeVars, mediaVars>>

besideConfig ==
    <<docVars, remoteVars, weatherVars, processorVars,
      builderVars, coffeeVars, mediaVars>>

besideRemote ==
    <<docVars, configVars, weatherVars, processorVars,
      builderVars, coffeeVars, mediaVars>>

besideWeather ==
    <<docVars, configVars, remoteVars, processorVars,
      builderVars, coffeeVars, mediaVars>>

besideProcessor ==
    <<docVars, configVars, remoteVars, weatherVars,
      builderVars, coffeeVars, mediaVars>>

besideBuilder ==
    <<docVars, configVars, remoteVars, weatherVars,
      processorVars, coffeeVars, mediaVars>>

besideCoffee ==
    <<docVars, configVars, remoteVars, weatherVars,
      processorVars, builderVars, mediaVars>>

besideMedia ==
    <<docVars, configVars, remoteVars, weatherVars,
      processorVars, builderVars, coffeeVars>>

vars == <<docVars, besideDoc>>

---------------------------------------------------------------------------
(* Bounds of the model *)

MaxNames == 3
MaxTexts == 3
MaxDenials == 2
MaxStatus == 2
MaxRefs == 4
MaxDisplays == 2
MaxAttach == 3
MaxRecords == 3
MaxBuilds == 2
MaxDecorators == 4
MaxTrace == 2

---------------------------------------------------------------------------
(* Types and inputs *)

DocumentStateType == {"Draft", "Moderation", "Published", "Archived"}

UserRole == {"Author", "Moderator", "Admin"}

UserNames == <<"Alice", "Bob", "Charlie", "Dave">>

Names == {UserNames[i] : i \in 1..MaxNames}

ContentTexts ==
    <<"draft text",
      "123456789012345678901234567890",
      "1234567890123456789012345678901",
      "",
      "My updated article on the State Pattern!",
      "A quick edit while under review.",
      "Trying to edit archived doc.">>

Texts == {ContentTexts[i] : i \in 1..MaxTexts}

---------------------------------------------------------------------------
(* Handler results: the context after the call and what was logged *)

Ctx(s, c, a) == [state |-> s, content |-> c, author |-> a]

Result(ctx, lines) == [ctx |-> ctx, log |-> lines, threw |-> FALSE]

transitionTo_KeepsArchived(context, newState) ==
    IF context.state = "Archived" THEN context
    ELSE [context EXCEPT !.state = newState]

transitionTo_Dropped(context, newState) ==
    [context EXCEPT !.state = "undefined"]

transitionTo(context, newState) == [context EXCEPT !.state = newState]

DocumentContext_AuthorAsContent(a) ==
    Result(Ctx("Draft", a, a),
           <<"Document created by " \o a \o ". Initial state: Draft">>)

DocumentContext(a) ==
    Result(Ctx("Draft", "", a),
           <<"Document created by " \o a \o ". Initial state: Draft">>)

---------------------------------------------------------------------------
(* DraftState *)

DraftState_setContent_AnyAuthor(context, text, currentUser, currentUserName) ==
    IF currentUser = "Author"
    THEN Result([context EXCEPT !.content = text], <<"[ok] Content updated.">>)
    ELSE Result(context,
           <<"[x] Only the original author can edit content in Draft state.">>)

DraftState_setContent(context, text, currentUser, currentUserName) ==
    IF currentUser = "Author" /\ currentUserName = context.author
    THEN Result([context EXCEPT !.content = text], <<"[ok] Content updated.">>)
    ELSE Result(context,
           <<"[x] Only the original author can edit content in Draft state.">>)

DraftState_requestReview_AnyAuthor(context, currentUser, currentUserName) ==
    IF currentUser = "Author"
    THEN Result(transitionTo(context, "Moderation"),
                <<"Document submitted for review.">>)
    ELSE Result(context, <<"Only the author can request a review.">>)

DraftState_requestReview(context, currentUser, currentUserName) ==
    IF currentUser = "Author" /\ currentUserName = context.author
    THEN Result(transitionTo(context, "Moderation"),
                <<"Document submitted for review.">>)
    ELSE Result(context, <<"Only the author can request a review.">>)

DraftState_approve_Publishes(context, currentUser, currentUserName) ==
    IF currentUser = "Admin"
    THEN Result(transitionTo(context, "Published"), <<"Document approved.">>)
    ELSE Result(context, <<"Cannot approve from Draft state.">>)

DraftState_approve_Verbose(context, currentUser, currentUserName) ==
    Result(context, <<"Attempting to approve. Current state: Draft",
                      "Cannot approve from Draft state.">>)

DraftState_approve(context, currentUser, currentUserName) ==
    Result(context, <<"Cannot approve from Draft state.">>)

DraftState_reject(context, currentUser, currentUserName) ==
    Result(context, <<"Cannot reject from Draft state.">>)

DraftState_unpublish(context, currentUser, currentUserName) ==
    Result(context, <<"Cannot unpublish from Draft state.">>)

DraftState_archive_Archives(context, currentUser, currentUserName) ==
    IF currentUser = "Admin"
    THEN Result(transitionTo(context, "Archived"), <<"Document archived.">>)
    ELSE Result(context, <<"Cannot archive from Draft state.">>)

DraftState_archive(context, currentUser, currentUserName) ==
    Result(context, <<"Cannot archive from Draft state.">>)

---------------------------------------------------------------------------
(* ModerationState *)

ModerationState_setContent_Writes(context, text, currentUser, currentUserName) ==
    Result([context EXCEPT !.content = text],
           <<"Cannot set content in Moderation state.">>)

ModerationState_setContent(context, text, currentUser, currentUserName) ==
    Result(context, <<"Cannot set content in Moderation state.">>)

ModerationState_requestReview(context, currentUser, currentUserName) ==
    Result(context, <<"Cannot request review in Moderation state.">>)

ModerationState_approve_ModeratorOnly(context, currentUser, currentUserName) ==
    IF currentUser = "Moderator"
    THEN Result(transitionTo(context, "Published"), <<"Document approved.">>)
    ELSE Result(context, <<"Only moderators or admins can approve.">>)

ModerationState_approve(context, currentUser, currentUserName) ==
    IF currentUser = "Moderator" \/ currentUser = "Admin"
    THEN Result(transitionTo(context, "Published"), <<"Document approved.">>)
    ELSE Result(context, <<"Only moderators or admins can approve.">>)

ModerationState_reject_ModeratorToo(context, currentUser, currentUserName) ==
    IF currentUser = "Moderator" \/ currentUser = "Admin"
    THEN Result(transitionTo(context, "Draft"), <<"Document rejected.">>)
    ELSE Result(context, <<"Only admins can reject.">>)

ModerationState_reject(context, currentUser, currentUserName) ==
    IF currentUser = "Admin"
    THEN Result(transitionTo(context, "Draft"), <<"Document rejected.">>)
    ELSE Result(context, <<"Only admins can reject.">>)

ModerationState_unpublish(context, currentUser, currentUserName) ==
    Result(context, <<"Cannot unpublish from Moderation state.">>)

ModerationState_archive(context, currentUser, currentUserName) ==
    Result(context, <<"Cannot archive from Moderation state.">>)

---------------------------------------------------------------------------
(* PublishedState *)

PublishedState_setContent(context, text, currentUser, currentUserName) ==
    Result(context, <<"Cannot set content in Published state.">>)

PublishedState_requestReview(context, currentUser, currentUserName) ==
    Result(context, <<"Cannot request review in Published state.">>)

PublishedState_approve_Republish(context, currentUser, currentUserName) ==
    Result(transitionTo(context, "Moderation"),
           <<"Cannot approve in Published state.">>)

PublishedState_approve(context, currentUser, currentUserName) ==
    Result(context, <<"Cannot approve in Published state.">>)

PublishedState_reject(context, currentUser, currentUserName) ==
    Result(context, <<"Cannot reject in Published state.">>)

PublishedState_unpublish_ClearsContent(context, currentUser, currentUserName) ==
    IF currentUser = "Admin"
    THEN Result([transitionTo(context, "Draft") EXCEPT !.content = ""],
                <<"Document unpublished.">>)
    ELSE Result(context, <<"Only admins can unpublish.">>)

PublishedState_unpublish_ToArchived(context, currentUser, currentUserName) ==
    IF currentUser = "Admin"
    THEN Result(transitionTo(context, "Archived"), <<"Document unpublished.">>)
    ELSE Result(context, <<"Only admins can unpublish.">>)

PublishedState_unpublish(context, currentUser, currentUserName) ==
    IF currentUser = "Admin"
    THEN Result(transitionTo(context, "Draft"), <<"Document unpublished.">>)
    ELSE Result(context, <<"Only admins can unpublish.">>)

PublishedState_archive(context, currentUser, currentUserName) ==
    Result(context, <<"Cannot archive from Published state.">>)

---------------------------------------------------------------------------
(* ArchivedState *)

ArchivedState_setContent(context, text, currentUser, currentUserName) ==
    Result(context, <<"Cannot set content in Archived state.">>)

ArchivedState_requestReview(context, currentUser, currentUserName) ==
    Result(context, <<"Cannot request review in Archived state.">>)

ArchivedState_approve(context, currentUser, currentUserName) ==
    Result(context, <<"Cannot approve in Archived state.">>)

ArchivedState_reject(context, currentUser, currentUserName) ==
    Result(context, <<"Cannot reject in Archived state.">>)

ArchivedState_unpublish_Restores(context, currentUser, currentUserName) ==
    IF currentUser = "Admin"
    THEN Result(transitionTo(context, "Draft"), <<"Document unpublished.">>)
    ELSE Result(context, <<"Cannot unpublish from Archived state.">>)

ArchivedState_unpublish(context, currentUser, currentUserName) ==
    Result(context, <<"Cannot unpublish from Archived state.">>)

ArchivedState_archive(context, currentUser, currentUserName) ==
    Result(context, <<"Cannot archive from Archived state.">>)

---------------------------------------------------------------------------
(* DocumentContext: every action is delegated to the current state object. *)
(* A call on a state slot that holds no state object raises a TypeError.   *)

TypeError(context) == [ctx |-> context, log |-> <<>>, threw |-> TRUE]

DocumentContext_setContent(context, text, currentUser, currentUserName) ==
    CASE context.state = "Draft" ->
           DraftState_setContent(context, text, currentUser, currentUserName)
      [] context.state = "Moderation" ->
           ModerationState_setContent(context, text, currentUser, currentUserName)
      [] context.state = "Published" ->
           PublishedState_setContent(context, text, currentUser, currentUserName)
      [] context.state = "Archived" ->
           ArchivedState_setContent(context, text, currentUser, currentUserName)
      [] OTHER -> TypeError(context)

DocumentContext_requestReview(context, currentUser, currentUserName) ==
    CASE context.state = "Draft" ->
           DraftState_requestReview(context, currentUser, currentUserName)
      [] context.state = "Moderation" ->
           ModerationState_requestReview(context, currentUser, currentUserName)
      [] context.state = "Published" ->
           PublishedState_requestReview(context, currentUser, currentUserName)
      [] context.state = "Archived" ->
           ArchivedState_requestReview(context, currentUser, currentUserName)
      [] OTHER -> TypeError(context)

DocumentContext_approve(context, currentUser, currentUserName) ==
    CASE context.state = "Draft" ->
           DraftState_approve(context, currentUser, currentUserName)
      [] context.state = "Moderation" ->
           ModerationState_approve(context, currentUser, currentUserName)
      [] context.state = "Published" ->
           PublishedState_approve(context, currentUser, currentUserName)
      [] context.state = "Archived" ->
           ArchivedState_approve(context, currentUser, currentUserName)
      [] OTHER -> TypeError(context)

DocumentContext_reject(context, currentUser, currentUserName) ==
    CASE context.state = "Draft" ->
           DraftState_reject(context, currentUser, currentUserName)
      [] context.state = "Moderation" ->
           ModerationState_reject(context, currentUser, currentUserName)
      [] context.state = "Published" ->
           PublishedState_reject(context, currentUser, currentUserName)
      [] context.state = "Archived" ->
           ArchivedState_reject(context, currentUser, currentUserName)
      [] OTHER -> TypeError(context)

DocumentContext_unpublish(context, currentUser, currentUserName) ==
    CASE context.state = "Draft" ->
           DraftState_unpublish(context, currentUser, currentUserName)
      [] context.state = "Moderation" ->
           ModerationState_unpublish(context, currentUser, currentUserName)
      [] context.state = "Published" ->
           PublishedState_unpublish(context, currentUser, currentUserName)
      [] context.state = "Archived" ->
           ArchivedState_unpublish(context, currentUser, currentUserName)
      [] OTHER -> TypeError(context)

DocumentContext_archive(context, currentUser, currentUserName) ==
    CASE context.state = "Draft" ->
           DraftState_archive(context, currentUser, currentUserName)
      [] context.state = "Moderation" ->
           ModerationState_archive(context, currentUser, currentUserName)
      [] context.state = "Published" ->
           PublishedState_archive(context, currentUser, currentUserName)
      [] context.state = "Archived" ->
           ArchivedState_archive(context, currentUser, currentUserName)
      [] OTHER -> TypeError(context)

---------------------------------------------------------------------------
(* printStatus interpolates the state object itself into the line; an     *)
(* object without a toString of its own is rendered "[object Object]".     *)

String(stateObject) == "[object Object]"

contentPreview_AtLeast30(text) ==
    IF Len(text) >= 30 THEN SubSeq(text, 1, 30) \o "..." ELSE text

contentPreview(text) ==
    IF Len(text) > 30 THEN SubSeq(text, 1, 30) \o "..." ELSE text

StatusHead(context) ==
    "--- STATUS --- Document (Author: " \o context.author \o "): State: "
        \o String(context.state) \o ", Content: \""

DocumentContext_printStatus_Truncates(context) ==
    Result([context EXCEPT !.content = contentPreview(context.content)],
           <<StatusHead(context) \o contentPreview(context.content) \o "\"">>)

DocumentContext_printStatus(context) ==
    Result(context,
           <<StatusHead(context) \o contentPreview(context.content) \o "\"">>)

---------------------------------------------------------------------------
(* The Document class that DocumentContext refactors: one state field and  *)
(* the state-dependent logic inline.  Its marks U+2705, U+274C and U+2139  *)
(* are written "[ok]", "[x]" and "[i]".                                    *)

Attempting(what, context, currentUser, currentUserName) ==
    "\nAttempting to " \o what \o " by " \o currentUserName \o " ("
        \o currentUser \o "). Current state: " \o context.state

Who(currentUser, currentUserName) ==
    "[x] " \o currentUser \o " (" \o currentUserName \o ")"

Document(a) ==
    Result(Ctx("Draft", "", a),
           <<"Document created by " \o a \o ". Initial state: Draft">>)

Document_setContent(context, text, currentUser, currentUserName) ==
    LET head == Attempting("set content", context, currentUser, currentUserName)
    IN  IF context.state = "Draft"
        THEN IF currentUser = "Author" /\ currentUserName = context.author
             THEN Result([context EXCEPT !.content = text],
                         <<head, "[ok] Content updated.">>)
             ELSE Result(context,
                    <<head, "[x] Only the original author can edit content in Draft state.">>)
        ELSE Result(context,
               <<head, "[x] Cannot set content in " \o context.state \o " state.">>)

Document_requestReview(context, currentUser, currentUserName) ==
    LET head == Attempting("request review", context, currentUser,
                           currentUserName)
    IN  IF context.state = "Draft"
        THEN IF currentUser = "Author" /\ currentUserName = context.author
             THEN Result([context EXCEPT !.state = "Moderation"],
                    <<head, "[ok] Document moved to Moderation by "
                              \o currentUserName \o ".">>)
             ELSE Result(context,
                    <<head, "[x] Only the original author can request a review for their document.">>)
        ELSE Result(context,
               <<head, "[x] Cannot request review from " \o context.state
                         \o " state.">>)

Document_approve(context, currentUser, currentUserName) ==
    LET head == Attempting("approve", context, currentUser, currentUserName)
    IN  IF context.state = "Moderation"
        THEN IF currentUser = "Moderator" \/ currentUser = "Admin"
             THEN Result([context EXCEPT !.state = "Published"],
                    <<head, "[ok] Document approved and Published by "
                              \o currentUserName \o ".">>)
             ELSE Result(context,
                    <<head, Who(currentUser, currentUserName)
                              \o " does not have permission to approve.">>)
        ELSE Result(context,
               <<head, "[x] Cannot approve document in " \o context.state
                         \o " state.">>)

Document_reject(context, currentUser, currentUserName) ==
    LET head == Attempting("reject", context, currentUser, currentUserName)
    IN  IF context.state = "Moderation"
        THEN IF currentUser = "Moderator" \/ currentUser = "Admin"
             THEN Result([context EXCEPT !.state = "Draft"],
                    <<head, "[ok] Document rejected by " \o currentUserName
                              \o ". Moved back to Draft.">>)
             ELSE Result(context,
                    <<head, Who(currentUser, currentUserName)
                              \o " does not have permission to reject.">>)
        ELSE Result(context,
               <<head, "[x] Cannot reject document in " \o context.state
                         \o " state.">>)

Document_unpublish(context, currentUser, currentUserName) ==
    LET head == Attempting("unpublish", context, currentUser, currentUserName)
    IN  IF context.state = "Published"
        THEN IF currentUser = "Admin"
             THEN Result([context EXCEPT !.state = "Draft"],
                    <<head, "[ok] Document unpublished by " \o currentUserName
                              \o ". Moved back to Draft.">>)
             ELSE Result(context,
                    <<head, Who(currentUser, currentUserName)
                              \o " does not have permission to unpublish.">>)
        ELSE Result(context,
               <<head, "[x] Cannot unpublish document from " \o context.state
                         \o " state.">>)

Document_archive(context, currentUser, currentUserName) ==
    LET head == Attempting("archive", context, currentUser, currentUserName)
    IN  IF context.state \in {"Published", "Draft", "Moderation"}
        THEN IF currentUser = "Admin"
             THEN Result([context EXCEPT !.state = "Archived"],
                    <<head, "[ok] Document archived by " \o currentUserName
                              \o ".">>)
             ELSE Result(context,
                    <<head, Who(currentUser, currentUserName)
                              \o " does not have permission to archive.">>)
        ELSE IF context.state = "Archived"
             THEN Result(context, <<head, "[i] Document is already archived.">>)
             ELSE Result(context,
                    <<head, "[x] Cannot archive document from "
                              \o context.state \o " state.">>)

---------------------------------------------------------------------------
(* The outcome of a call is what it reports: these are the lines the       *)
(* handlers write on the branch that performs the action.                  *)

SuccessReports ==
    {"[ok] Content updated.",
     "Document submitted for review.",
     "Document approved.",
     "Document rejected.",
     "Document unpublished."}

Succeeded(lines) == Len(lines) > 0 /\ lines[1] \in SuccessReports

Denied(lines) == Len(lines) > 0 /\ lines[1] \notin SuccessReports

---------------------------------------------------------------------------
(* ConfigurationManager (Singleton).  A manager object is identified by    *)
(* its position in managers, which holds its settings.                     *)

SettingKeys == {"appName", "version", "author"}

NoSettings == [k \in {} |-> ""]

ConfigurationManager == NoSettings

getInstance_AlwaysNew(inst, objects) ==
    [instance |-> Len(objects) + 1,
     managers |-> Append(objects, ConfigurationManager),
     ret      |-> Len(objects) + 1]

getInstance(inst, objects) ==
    IF inst = 0
    THEN [instance |-> Len(objects) + 1,
          managers |-> Append(objects, ConfigurationManager),
          ret      |-> Len(objects) + 1]
    ELSE [instance |-> inst, managers |-> objects, ret |-> inst]

loadConfig(settings) ==
    [k \in {"appName", "version"} |->
        IF k = "appName" THEN "my app" ELSE "v3"]

getSetting(settings, setting) ==
    IF setting \in DOMAIN settings THEN settings[setting] ELSE "undefined"

ConfigInit ==
    /\ instance = 0
    /\ managers = <<>>
    /\ refs = <<>>
    /\ cfgCall = [op |-> "none", ref |-> 0, setting |-> "", result |-> ""]
    /\ loadedVia = 0

---------------------------------------------------------------------------
(* SmartLight (receiver), the commands and RemoteControl (invoker).  A     *)
(* command object is its class and, for SetBrightnessCommand, its level.   *)

Levels == {-10, 0, 30, 60, 100, 150}

NoCommand == [kind |-> "null", level |-> 0]

TurnOnLightCommand == [kind |-> "TurnOn", level |-> 0]

TurnOffLightCommand == [kind |-> "TurnOff", level |-> 0]

SetBrightnessCommand(level) == [kind |-> "SetBrightness", level |-> level]

Commands ==
    {TurnOnLightCommand, TurnOffLightCommand}
        \cup {SetBrightnessCommand(l) : l \in Levels}

Max(a, b) == IF a >= b THEN a ELSE b

Min(a, b) == IF a <= b THEN a ELSE b

SmartLight == [isOn |-> FALSE, brightness |-> 100]

turnOn(l) == [light |-> [l EXCEPT !.isOn = TRUE], log |-> <<"Light is ON.">>]

turnOff(l) == [light |-> [l EXCEPT !.isOn = FALSE], log |-> <<"Light is OFF.">>]

setBrightness_Unclamped(l, level) ==
    [light |-> [l EXCEPT !.brightness = level],
     log   |-> <<"Light brightness set to " \o ToString(level) \o "%.">>]

setBrightness(l, level) ==
    LET b == Max(0, Min(100, level)) IN
    [light |-> [l EXCEPT !.brightness = b],
     log   |-> <<"Light brightness set to " \o ToString(b) \o "%.">>]

execute(c, l) ==
    CASE c.kind = "TurnOn" -> turnOn(l)
      [] c.kind = "TurnOff" -> turnOff(l)
      [] c.kind = "SetBrightness" -> setBrightness(l, c.level)

RemoteControl == NoCommand

setCommand_KeepFirst(held, c) == IF held = NoCommand THEN c ELSE held

setCommand(held, c) == c

pressButton(held, l) ==
    IF held = NoCommand
    THEN [light |-> l, log |-> <<>>, executed |-> <<>>,
          threw |-> "You need to set a command"]
    ELSE LET r == execute(held, l) IN
         [light |-> r.light, log |-> r.log, executed |-> <<held>>,
          threw |-> ""]

RemoteInit ==
    /\ light = SmartLight
    /\ command = RemoteControl
    /\ lastSet = NoCommand
    /\ remoteCall = [op |-> "none", log |-> <<>>, executed |-> <<>>,
                     threw |-> "", light |-> SmartLight]

---------------------------------------------------------------------------
(* WeatherStation (subject) and its displays (observers).  A display       *)
(* object is a number; odd ones are TemperatureDisplays, even ones         *)
(* HumidityDisplays.  The degree sign U+00B0 of the source is written      *)
(* "deg ".                                                                 *)

DisplayObjects == 1..MaxDisplays

Temperatures == {25, 28}

Humidities == {65, 60}

WeatherStation == [temperature |-> 0, humidity |-> 0]

getTemperature(st) == st.temperature

getHumidity(st) == st.humidity

TemperatureDisplay_update(st) ==
    "Temperature Display: Current Temp: " \o ToString(getTemperature(st))
        \o "deg C"

HumidityDisplay_update(st) ==
    "Humidity Display: Current Humidity: " \o ToString(getHumidity(st)) \o "%"

(* What one update call finds: the display called, the station's fields    *)
(* at that moment, and the line the display prints.                        *)
update(d, st) ==
    [display |-> d, temperature |-> st.temperature, humidity |-> st.humidity,
     line |-> IF d % 2 = 1 THEN TemperatureDisplay_update(st)
                           ELSE HumidityDisplay_update(st)]

attach(ds, d) == Append(ds, d)

measurementsChanged(st, ds) == [i \in 1..Len(ds) |-> update(ds[i], st)]

setMeasurements_NotifyFirst(st, ds, temperature, humidity) ==
    [station  |-> [temperature |-> temperature, humidity |-> humidity],
     notified |-> measurementsChanged(st, ds)]

setMeasurements(st, ds, temperature, humidity) ==
    LET st1 == [temperature |-> temperature, humidity |-> humidity] IN
    [station |-> st1, notified |-> measurementsChanged(st1, ds)]

WeatherInit ==
    /\ station = WeatherStation
    /\ displays = <<>>
    /\ weatherCall = [op |-> "none", display |-> 0]
    /\ measured = [temperature |-> 0, humidity |-> 0, displays |-> <<>>]
    /\ notified = <<>>

---------------------------------------------------------------------------
(* AbstractDataProcessor (Template Method).  parseData and generateReport  *)
(* are abstract: what they return is up to the subclass.  A number is      *)
(* either a value or NaN, which is what adding a missing value gives.      *)

Num(n) == [nan |-> FALSE, n |-> n]

NaN == [nan |-> TRUE, n |-> 0]

Plus(a, b) == IF a.nan \/ b.nan THEN NaN ELSE Num(a.n + b.n)

Shown(a) == IF a.nan THEN "NaN" ELSE ToString(a.n)

FilePaths == {"documents/finances.csv", "logs/serverlog.txt"}

RecordValues == {Num(150), Num(250), NaN}

RecordLists ==
    UNION {[1..n -> RecordValues] : n \in 0..MaxRecords}

DataRecords(values) == [i \in 1..Len(values) |-> [id |-> i, value |-> values[i]]]

Reports == {"----- CSV Data Report -----", "***** TXT File Summary *****"}

RECURSIVE SumOfValues(_, _)
SumOfValues(records, k) ==
    IF k = 0 THEN Num(0)
    ELSE Plus(SumOfValues(records, k - 1), records[k].value)

openFile(filepath) == <<"Opening CSV file: " \o filepath>>

analyzeData(records) ==
    LET sumOfValues == SumOfValues(records, Len(records)) IN
    [totalRecords       |-> Len(records),
     primaryMetricName  |-> "Total Value",
     primaryMetricValue |-> sumOfValues,
     filePath           |-> "unavailable",
     notes              |-> "Total value  is " \o Shown(sumOfValues) \o "."]

publishReport(report) == <<"Report published.">>

closeFile(filePath) == <<"File closed.">>

Step(name, arg, ret, lines) ==
    [step |-> name, arg |-> arg, ret |-> ret, log |-> lines]

processFile_ClosesFirst(filepath, parseData, generateReport) ==
    LET parsed == parseData
        analysisResult == analyzeData(parsed)
        report == generateReport
    IN  <<Step("openFile", filepath, "void", openFile(filepath)),
          Step("parseData", filepath, parsed, <<>>),
          Step("analyzeData", parsed, analysisResult, <<>>),
          Step("generateReport", analysisResult, report, <<>>),
          Step("closeFile", filepath, "void", closeFile(filepath)),
          Step("publishReport", report, "void", publishReport(report))>>

(* parseData and generateReport stand for what the subclass's methods      *)
(* return when processFile calls them.                                     *)
processFile(filepath, parseData, generateReport) ==
    LET parsed == parseData
        analysisResult == analyzeData(parsed)
        report == generateReport
    IN  <<Step("openFile", filepath, "void", openFile(filepath)),
          Step("parseData", filepath, parsed, <<>>),
          Step("analyzeData", parsed, analysisResult, <<>>),
          Step("generateReport", analysisResult, report, <<>>),
          Step("publishReport", report, "void", publishReport(report)),
          Step("closeFile", filepath, "void", closeFile(filepath))>>

ProcessorInit ==
    /\ procCall = [op |-> "none", filepath |-> "", parsed |-> <<>>,
                   report |-> ""]
    /\ trace = <<>>

---------------------------------------------------------------------------
(* Computer and ComputerBuilder.  The null of the gpu field is written     *)
(* Null; an object reference is the class name with the object's number.   *)

CPUs == {"Intel i5-12400", "AMD Ryzen 9 7950X"}

RAMs == {8}

Storages == {256}

GPUs == {"NVIDIA RTX 4080"}

PowerSupplies == {400}

OperatingSystems == {"Windows 10 Pro"}

Null == "null"

Ref(class, object) == [class |-> class, object |-> object]

Computer ==
    [cpu |-> "", ramGB |-> 0, storageGB |-> 0, gpu |-> Null,
     powerSupplyWatts |-> 500, operatingSystem |-> "Windows 10",
     hasWifi |-> TRUE, hasBluetooth |-> TRUE]

Computer_setCPU(c, cpu) == [c EXCEPT !.cpu = cpu]

Computer_setRAM(c, ramGB) == [c EXCEPT !.ramGB = ramGB]

Computer_setStorage(c, storageGB) == [c EXCEPT !.storageGB = storageGB]

Computer_setGPU(c, gpu) == [c EXCEPT !.gpu = gpu]

Computer_setPowerSupply(c, powerSupplyWatts) ==
    [c EXCEPT !.powerSupplyWatts = powerSupplyWatts]

Computer_setOperatingSystem(c, operatingSystem) ==
    [c EXCEPT !.operatingSystem = operatingSystem]

Computer_setHasWifi(c, hasWifi) == [c EXCEPT !.hasWifi = hasWifi]

Computer_setHasBluetooth(c, hasBluetooth) ==
    [c EXCEPT !.hasBluetooth = hasBluetooth]

OrElse(value, fallback) ==
    IF value = Null \/ value = "" THEN fallback ELSE value

YesNo(flag) == IF flag THEN "Yes" ELSE "No"

getSpecs(c) ==
    "Computer Specs: CPU: " \o c.cpu
        \o ", RAM: " \o ToString(c.ramGB) \o "GB"
        \o ", Storage: " \o ToString(c.storageGB) \o "GB"
        \o ", GPU: " \o OrElse(c.gpu, "Integrated")
        \o ", PSU: " \o ToString(c.powerSupplyWatts) \o "W"
        \o ", OS: " \o OrElse(c.operatingSystem, "None")
        \o ", Wi-Fi: " \o YesNo(c.hasWifi)
        \o ", Bluetooth: " \o YesNo(c.hasBluetooth) \o "."

(* new ComputerBuilder() on a heap of Computer objects: the builder holds  *)
(* a Computer constructed for it.                                          *)
ComputerBuilder(heap) ==
    [heap |-> Append(heap, Computer),
     this |-> [object |-> 1, computer |-> Len(heap) + 1]]

(* A builder method leaves a heap and a builder behind and returns a       *)
(* reference.                                                              *)
Chained(this, heap, c) ==
    [heap     |-> [heap EXCEPT ![this.computer] = c],
     this     |-> this,
     returned |-> Ref("ComputerBuilder", this.object)]

setCPU(this, heap, cpu) ==
    Chained(this, heap, Computer_setCPU(heap[this.computer], cpu))

setRAM(this, heap, ramGB) ==
    Chained(this, heap, Computer_setRAM(heap[this.computer], ramGB))

setStorage(this, heap, storageGB) ==
    Chained(this, heap, Computer_setStorage(heap[this.computer], storageGB))

setGPU(this, heap, gpu) ==
    Chained(this, heap, Computer_setGPU(heap[this.computer], gpu))

setPowerSupply(this, heap, powerSupplyWatts) ==
    Chained(this, heap,
            Computer_setPowerSupply(heap[this.computer], powerSupplyWatts))

installOS(this, heap, operatingSystem) ==
    Chained(this, heap,
            Computer_setOperatingSystem(heap[this.computer], operatingSystem))

enableWifi(this, heap) ==
    Chained(this, heap, Computer_setHasWifi(heap[this.computer], TRUE))

disableWifi(this, heap) ==
    Chained(this, heap, Computer_setHasWifi(heap[this.computer], FALSE))

enableBluetooth(this, heap) ==
    Chained(this, heap, Computer_setHasBluetooth(heap[this.computer], TRUE))

disableBluetooth_Wifi(this, heap) ==
    Chained(this, heap, Computer_setHasWifi(heap[this.computer], FALSE))

disableBluetooth(this, heap) ==
    Chained(this, heap, Computer_setHasBluetooth(heap[this.computer], FALSE))

build_Resets(this, heap) ==
    [heap     |-> Append(heap, Computer),
     this     |-> [this EXCEPT !.computer = Len(heap) + 1],
     returned |-> Ref("Computer", this.computer)]

build(this, heap) ==
    [heap     |-> heap,
     this     |-> this,
     returned |-> Ref("Computer", this.computer)]

NoValue ==
    [cpu |-> <<>>, ramGB |-> <<>>, storageGB |-> <<>>, gpu |-> <<>>,
     powerSupplyWatts |-> <<>>, operatingSystem |-> <<>>,
     hasWifi |-> <<>>, hasBluetooth |-> <<>>]

BuilderInit ==
    /\ computers = ComputerBuilder(<<>>).heap
    /\ builder = ComputerBuilder(<<>>).this
    /\ built = <<>>
    /\ lastValue = NoValue
    /\ builderCall = [op |-> "new", returned |-> Ref("ComputerBuilder", 1)]

---------------------------------------------------------------------------
(* Coffee and its decorators.  A coffee object is the sequence of the      *)
(* decorators wrapped around a SimpleCoffee, innermost first.              *)
(*                                                                         *)
(* Costs are the source's IEEE 754 doubles.  A double d with 4 <= d < 32   *)
(* (and the literals added to one) is the record Double(h, a, b) with      *)
(* d = h/2 + (a * 2^27 + b) / 2^54, 0 <= a < 2^26, 0 <= b < 2^27: h counts *)
(* the halves, a and b are the two limbs of the rest in units of 2^-54.    *)
(* So 5 is Double(10, 0, 0), 1.5 is Double(3, 0, 0), and the double 0.2,   *)
(* which is 3602879701896397 / 2^54, is Double(0, 26843545, 80530637).     *)

Decorators == {"Milk", "Sugar", "Mocha"}

Double(halves, high, low) == [halves |-> halves, high |-> high, low |-> low]

(* x + y on doubles: the exact sum, rounded to the nearest double of the   *)
(* sum's binade (spacing 2^(e-52) for 2^e <= sum < 2^(e+1), which is       *)
(* 2^(e+2) units), ties to the even mantissa.                              *)
Add(x, y) ==
    LET low0   == x.low + y.low
        low1   == low0 % 2^27
        high0  == x.high + y.high + (low0 \div 2^27)
        high1  == high0 % 2^26
        halves == x.halves + y.halves + (high0 \div 2^26)
        e      == IF halves < 16 THEN 2 ELSE IF halves < 32 THEN 3 ELSE 4
        ulp    == 2^(e + 2)
        rest   == low1 % ulp
        down   == low1 - rest
        up     == \/ 2 * rest > ulp
                  \/ 2 * rest = ulp /\ (down \div ulp) % 2 = 1
        low2   == IF up THEN down + ulp ELSE down
        high2  == high1 + (low2 \div 2^27)
    IN  Double(halves + (high2 \div 2^26), high2 % 2^26, low2 % 2^27)

SimpleCoffee == <<>>

SimpleCoffee_getCost == Double(10, 0, 0)

SimpleCoffee_getDescription == "Simple Coffee"

MilkDecorator_getCost(inner) == Add(inner, Double(3, 0, 0))

MilkDecorator_getDescription(inner) == inner \o ", Milk"

SugarDecorator_getCost(inner) == Add(inner, Double(2, 0, 0))

SugarDecorator_getDescription(inner) == inner \o ", Sugar"

MochaDecorator_getCost(inner) == Add(inner, Double(0, 26843545, 80530637))

MochaDecorator_getDescription(inner) == inner \o ", Mocha"

Inner(c) == SubSeq(c, 1, Len(c) - 1)

RECURSIVE getCost(_)
getCost(c) ==
    IF c = SimpleCoffee THEN SimpleCoffee_getCost
    ELSE CASE c[Len(c)] = "Milk" -> MilkDecorator_getCost(getCost(Inner(c)))
           [] c[Len(c)] = "Sugar" -> SugarDecorator_getCost(getCost(Inner(c)))
           [] c[Len(c)] = "Mocha" -> MochaDecorator_getCost(getCost(Inner(c)))

RECURSIVE getDescription(_)
getDescription(c) ==
    IF c = SimpleCoffee THEN SimpleCoffee_getDescription
    ELSE CASE c[Len(c)] = "Milk" ->
                  MilkDecorator_getDescription(getDescription(Inner(c)))
           [] c[Len(c)] = "Sugar" ->
                  SugarDecorator_getDescription(getDescription(Inner(c)))
           [] c[Len(c)] = "Mocha" ->
                  MochaDecorator_getDescription(getDescription(Inner(c)))

Decorate(c, decorator) == Append(c, decorator)

CoffeeInit ==
    /\ coffee = SimpleCoffee
    /\ coffeeCall = [op |-> "new", cost |-> Double(0, 0, 0),
                     description |-> ""]

---------------------------------------------------------------------------
(* Media subsystem (AudioPlayer, VideoPlayer, CodecConverter), the         *)
(* MediaPlayerFacade over it and the MultimediaApp it replaces.  An        *)
(* omitted targetFormat argument is written Undefined.                     *)

FileNames == {"my_podcast.mp3", "song.mp3", "a.b.wav", "track."}

Formats == {"mp3", "wav"}

Resolutions == {"1080p", "720p"}

Undefined == "undefined"

RECURSIVE IndexOf(_, _, _)
IndexOf(text, separator, from) ==
    IF from > Len(text) THEN 0
    ELSE IF SubSeq(text, from, from) = separator THEN from
    ELSE IndexOf(text, separator, from + 1)

RECURSIVE LastIndexOf(_, _, _)
LastIndexOf(text, separator, from) ==
    IF from < 1 THEN 0
    ELSE IF SubSeq(text, from, from) = separator THEN from
    ELSE LastIndexOf(text, separator, from - 1)

(* fileName.split(".")[0] and fileName.split(".").pop() *)
SplitFirst(fileName) ==
    LET i == IndexOf(fileName, ".", 1) IN
    IF i = 0 THEN fileName ELSE SubSeq(fileName, 1, i - 1)

SplitPop(fileName) ==
    SubSeq(fileName, LastIndexOf(fileName, ".", Len(fileName)) + 1,
           Len(fileName))

Or(value, fallback) == IF value = "" THEN fallback ELSE value

Sub(object, method, arguments, returned, line) ==
    [object |-> object, method |-> method, arguments |-> arguments,
     returned |-> returned, log |-> line]

AudioPlayer_playAudio(fileName, format) ==
    Sub("AudioPlayer", "playAudio", <<fileName, format>>, "void",
        "AudioPlayer: Playing audio '" \o fileName \o "' in " \o format
            \o " format.")

AudioPlayer_stopAudio ==
    Sub("AudioPlayer", "stopAudio", <<>>, "void",
        "AudioPlayer: Stopping audio.")

VideoPlayer_playVideo(fileName, resolution) ==
    Sub("VideoPlayer", "playVideo", <<fileName, resolution>>, "void",
        "VideoPlayer: Playing video '" \o fileName \o "' at " \o resolution
            \o ".")

VideoPlayer_stopVideo ==
    Sub("VideoPlayer", "stopVideo", <<>>, "void",
        "VideoPlayer: Stopping video.")

CodecConverter_convert(fileName, fromFormat, toFormat) ==
    Sub("CodecConverter", "convert", <<fileName, fromFormat, toFormat>>,
        SplitFirst(fileName) \o "." \o toFormat,
        "CodecConverter: Converting '" \o fileName \o "' from " \o fromFormat
            \o " to " \o toFormat \o ".")

DefaultTo(argument, default) ==
    IF argument = Undefined THEN default ELSE argument

MediaPlayerFacade_playAudio(fileName, target) ==
    LET targetFormat == DefaultTo(target, "mp3")
        originalFormat == Or(SplitPop(fileName), "unknown")
        converted ==
            CodecConverter_convert(fileName, originalFormat, targetFormat)
    IN  <<converted, AudioPlayer_playAudio(fileName, originalFormat)>>

MediaPlayerFacade_playVideo(fileName, resolution) ==
    <<VideoPlayer_playVideo(fileName, resolution)>>

MediaPlayerFacade_stopPlayback ==
    <<AudioPlayer_stopAudio, VideoPlayer_stopVideo>>

(* The audio branch of MultimediaApp.playMedia. *)
MultimediaApp_playMedia_audio(fileName, targetFormat) ==
    LET originalFormat == Or(SplitPop(fileName), "")
        converted ==
            CodecConverter_convert(fileName, originalFormat, targetFormat)
        convertedFile == converted.returned
    IN  <<converted, AudioPlayer_playAudio(convertedFile, targetFormat)>>

MediaInit ==
    /\ mediaTrace = <<>>
    /\ mediaCall = [op |-> "new", fileName |-> "", argument |-> "",
                    issued |-> <<>>]

InitBeside ==
    /\ ConfigInit
    /\ RemoteInit
    /\ WeatherInit
    /\ ProcessorInit
    /\ BuilderInit
    /\ CoffeeInit
    /\ MediaInit

---------------------------------------------------------------------------
(* State machine.  call records the arguments of the last call (text is    *)
(* its payload: the new content, or the state handed to transitionTo) and  *)
(* the state and content it found; base is the state and content left by   *)
(* the last call that was not denied (or by the constructor), and denials  *)
(* counts the denied calls made since, up to MaxDenials.  statusRun counts  *)
(* the status queries made since the last other call, up to MaxStatus.     *)
(* original is a Document built for the same author and given the same     *)
(* action calls, when the client builds one (NoDocument otherwise).        *)

Call(op, text, currentUser, currentUserName) ==
    [op |-> op, text |-> text, currentUser |-> currentUser,
     currentUserName |-> currentUserName, state |-> state, content |-> content]

Here == Ctx(state, content, author)

NoDocument == Ctx("", "", "")

Paired(o) == IF original = NoDocument THEN Result(NoDocument, <<>>) ELSE o

Return(r, o) ==
    /\ state' = r.ctx.state
    /\ content' = r.ctx.content
    /\ author' = r.ctx.author
    /\ console' = r.log
    /\ threw' = r.threw
    /\ base' = IF Denied(r.log)
               THEN base
               ELSE [state |-> r.ctx.state, content |-> r.ctx.content]
    /\ denials' = IF Denied(r.log)
                  THEN IF denials < MaxDenials THEN denials + 1 ELSE denials
                  ELSE 0
    /\ statusRun' = 0
    /\ original' = Paired(o).ctx
    /\ UNCHANGED besideDoc

InitDoc(paired, authors) ==
    \E a \in authors :
        LET r == DocumentContext(a) IN
        /\ state = r.ctx.state
        /\ content = r.ctx.content
        /\ author = r.ctx.author
        /\ console = r.log
        /\ threw = r.threw
        /\ call = [op |-> "new", text |-> "", currentUser |-> "",
                   currentUserName |-> a, state |-> "", content |-> ""]
        /\ base = [state |-> r.ctx.state, content |-> r.ctx.content]
        /\ denials = 0
        /\ statusRun = 0
        /\ original = IF paired THEN Document(a).ctx ELSE NoDocument

Init == InitDoc(FALSE, Names) /\ InitBeside

InitPaired == InitDoc(TRUE, Names) /\ InitBeside

(* One untouched document, for the specifications of the other exercises. *)
InitIdle == InitDoc(FALSE, {UserNames[1]}) /\ InitBeside

SetContent ==
    \E text \in Texts, currentUser \in UserRole, currentUserName \in Names :
        /\ ~threw
        /\ call' = Call("setContent", text, currentUser, currentUserName)
        /\ Return(DocumentContext_setContent(Here, text, currentUser,
                                             currentUserName),
                  Document_setContent(original, text, currentUser,
                                      currentUserName))

RequestReview ==
    \E currentUser \in UserRole, currentUserName \in Names :
        /\ ~threw
        /\ call' = Call("requestReview", "", currentUser, currentUserName)
        /\ Return(DocumentContext_requestReview(Here, currentUser,
                                                currentUserName),
                  Document_requestReview(original, currentUser,
                                         currentUserName))

Approve ==
    \E currentUser \in UserRole, currentUserName \in Names :
        /\ ~threw
        /\ call' = Call("approve", "", currentUser, currentUserName)
        /\ Return(DocumentContext_approve(Here, currentUser, currentUserName),
                  Document_approve(original, currentUser, currentUserName))

Reject ==
    \E currentUser \in UserRole, currentUserName \in Names :
        /\ ~threw
        /\ call' = Call("reject", "", currentUser, currentUserName)
        /\ Return(DocumentContext_reject(Here, currentUser, currentUserName),
                  Document_reject(original, currentUser, currentUserName))

Unpublish ==
    \E currentUser \in UserRole, currentUserName \in Names :
        /\ ~threw
        /\ call' = Call("unpublish", "", currentUser, currentUserName)
        /\ Return(DocumentContext_unpublish(Here, currentUser, currentUserName),
                  Document_unpublish(original, currentUser, currentUserName))

Archive ==
    \E currentUser \in UserRole, currentUserName \in Names :
        /\ ~threw
        /\ call' = Call("archive", "", currentUser, currentUserName)
        /\ Return(DocumentContext_archive(Here, currentUser, currentUserName),
                  Document_archive(original, currentUser, currentUserName))

Next ==
    \/ SetContent
    \/ RequestReview
    \/ Approve
    \/ Reject
    \/ Unpublish
    \/ Archive

Spec == Init /\ [][Next]_vars

SpecPaired == InitPaired /\ [][Next]_vars

(* transitionTo is a public method of DocumentContext: a client holding    *)
(* the document can hand it any state object.                              *)
TransitionTo ==
    \E newState \in DocumentStateType :
        /\ ~threw
        /\ call' = Call("transitionTo", newState, "", "")
        /\ Return(Result(transitionTo(Here, newState), <<>>),
                  Result(original, <<>>))

NextTransition ==
    \/ Next
    \/ TransitionTo

SpecTransition == Init /\ [][NextTransition]_vars

PrintStatus ==
    LET r == DocumentContext_printStatus(Here) IN
    /\ ~threw
    /\ call' = Call("printStatus", "", "", "")
    /\ state' = r.ctx.state
    /\ content' = r.ctx.content
    /\ author' = r.ctx.author
    /\ console' = r.log
    /\ threw' = r.threw
    /\ statusRun' = IF statusRun < MaxStatus THEN statusRun + 1 ELSE statusRun
    /\ UNCHANGED <<base, denials, original>>
    /\ UNCHANGED besideDoc

NextStatus ==
    \/ NextTransition
    \/ PrintStatus

SpecStatus == Init /\ [][NextStatus]_vars

---------------------------------------------------------------------------
(* ConfigurationManager: the client calls getInstance and keeps what it    *)
(* returns, and calls loadConfig and getSetting through what it keeps.     *)

GetInstance ==
    LET r == getInstance(instance, managers) IN
    /\ Len(refs) < MaxRefs
    /\ instance' = r.instance
    /\ managers' = r.managers
    /\ refs' = Append(refs, r.ret)
    /\ cfgCall' = [op |-> "getInstance", ref |-> Len(refs) + 1,
                   setting |-> "", result |-> ""]
    /\ UNCHANGED loadedVia
    /\ UNCHANGED besideConfig

LoadConfig ==
    \E i \in 1..Len(refs) :
        /\ managers' = [managers EXCEPT ![refs[i]] = loadConfig(@)]
        /\ cfgCall' = [op |-> "loadConfig", ref |-> i,
                       setting |-> "", result |-> ""]
        /\ loadedVia' = i
        /\ UNCHANGED <<instance, refs>>
        /\ UNCHANGED besideConfig

GetSetting ==
    \E i \in 1..Len(refs), setting \in SettingKeys :
        /\ cfgCall' = [op |-> "getSetting", ref |-> i, setting |-> setting,
                       result |-> getSetting(managers[refs[i]], setting)]
        /\ UNCHANGED <<instance, managers, refs, loadedVia>>
        /\ UNCHANGED besideConfig

NextConfig ==
    \/ GetInstance
    \/ LoadConfig
    \/ GetSetting

SpecConfig == InitIdle /\ [][NextConfig]_vars

---------------------------------------------------------------------------
(* Smart home: the client hands commands to the remote and presses its     *)
(* button; an Error thrown by pressButton reaches the caller, who may go   *)
(* on using the remote.                                                    *)

SetCommand ==
    \E c \in Commands :
        /\ command' = setCommand(command, c)
        /\ lastSet' = c
        /\ remoteCall' = [op |-> "setCommand", log |-> <<>>,
                          executed |-> <<>>, threw |-> "", light |-> light]
        /\ UNCHANGED light
        /\ UNCHANGED besideRemote

PressButton ==
    LET r == pressButton(command, light) IN
    /\ light' = r.light
    /\ remoteCall' = [op |-> "pressButton", log |-> r.log,
                      executed |-> r.executed, threw |-> r.threw,
                      light |-> light]
    /\ UNCHANGED <<command, lastSet>>
    /\ UNCHANGED besideRemote

NextRemote ==
    \/ SetCommand
    \/ PressButton

SpecRemote == InitIdle /\ [][NextRemote]_vars

---------------------------------------------------------------------------
(* Weather station: the client attaches displays, the same one as often    *)
(* as it likes, and hands in measurements.                                 *)

Attach ==
    \E d \in DisplayObjects :
        /\ Len(displays) < MaxAttach
        /\ displays' = attach(displays, d)
        /\ weatherCall' = [op |-> "attach", display |-> d]
        /\ UNCHANGED <<station, measured, notified>>
        /\ UNCHANGED besideWeather

SetMeasurements ==
    \E temperature \in Temperatures, humidity \in Humidities :
        LET r == setMeasurements(station, displays, temperature, humidity) IN
        /\ station' = r.station
        /\ notified' = r.notified
        /\ measured' = [temperature |-> temperature, humidity |-> humidity,
                        displays |-> displays]
        /\ weatherCall' = [op |-> "setMeasurements", display |-> 0]
        /\ UNCHANGED displays
        /\ UNCHANGED besideWeather

NextWeather ==
    \/ Attach
    \/ SetMeasurements

SpecWeather == InitIdle /\ [][NextWeather]_vars

---------------------------------------------------------------------------
(* Data processor: the client calls processFile on some subclass.          *)

ProcessFile ==
    \E filepath \in FilePaths, values \in RecordLists, report \in Reports :
        /\ trace' = processFile(filepath, DataRecords(values), report)
        /\ procCall' = [op |-> "processFile", filepath |-> filepath,
                        parsed |-> DataRecords(values), report |-> report]
        /\ UNCHANGED besideProcessor

NextProcessor ==
    \/ ProcessFile

SpecProcessor == InitIdle /\ [][NextProcessor]_vars

---------------------------------------------------------------------------
(* Computer builder: the client calls the builder's setters and build()    *)
(* in any order.                                                           *)

Chain(op, field, value, r) ==
    /\ computers' = r.heap
    /\ builder' = r.this
    /\ lastValue' = [lastValue EXCEPT ![field] = <<value>>]
    /\ builderCall' = [op |-> op, returned |-> r.returned]
    /\ UNCHANGED built
    /\ UNCHANGED besideBuilder

SetCPU ==
    \E cpu \in CPUs :
        Chain("setCPU", "cpu", cpu, setCPU(builder, computers, cpu))

SetRAM ==
    \E ramGB \in RAMs :
        Chain("setRAM", "ramGB", ramGB, setRAM(builder, computers, ramGB))

SetStorage ==
    \E storageGB \in Storages :
        Chain("setStorage", "storageGB", storageGB,
              setStorage(builder, computers, storageGB))

SetGPU ==
    \E gpu \in GPUs :
        Chain("setGPU", "gpu", gpu, setGPU(builder, computers, gpu))

SetPowerSupply ==
    \E powerSupplyWatts \in PowerSupplies :
        Chain("setPowerSupply", "powerSupplyWatts", powerSupplyWatts,
              setPowerSupply(builder, computers, powerSupplyWatts))

InstallOS ==
    \E operatingSystem \in OperatingSystems :
        Chain("installOS", "operatingSystem", operatingSystem,
              installOS(builder, computers, operatingSystem))

EnableWifi ==
    Chain("enableWifi", "hasWifi", TRUE, enableWifi(builder, computers))

DisableWifi ==
    Chain("disableWifi", "hasWifi", FALSE, disableWifi(builder, computers))

EnableBluetooth ==
    Chain("enableBluetooth", "hasBluetooth", TRUE,
          enableBluetooth(builder, computers))

DisableBluetooth ==
    Chain("disableBluetooth", "hasBluetooth", FALSE,
          disableBluetooth(builder, computers))

Build ==
    LET r == build(builder, computers) IN
    /\ Len(built) < MaxBuilds
    /\ computers' = r.heap
    /\ builder' = r.this
    /\ built' = Append(built, r.returned.object)
    /\ builderCall' = [op |-> "build", returned |-> r.returned]
    /\ UNCHANGED lastValue
    /\ UNCHANGED besideBuilder

NextBuilder ==
    \/ SetCPU
    \/ SetRAM
    \/ SetStorage
    \/ SetGPU
    \/ SetPowerSupply
    \/ InstallOS
    \/ EnableWifi
    \/ DisableWifi
    \/ EnableBluetooth
    \/ DisableBluetooth
    \/ Build

SpecBuilder == InitIdle /\ [][NextBuilder]_vars

---------------------------------------------------------------------------
(* Coffee shop: the client wraps the coffee in one more decorator or asks  *)
(* the outermost object for its cost or its description.                   *)

Wrap ==
    \E decorator \in Decorators :
        /\ Len(coffee) < MaxDecorators
        /\ coffee' = Decorate(coffee, decorator)
        /\ coffeeCall' = [op |-> "new", cost |-> Double(0, 0, 0),
                          description |-> ""]
        /\ UNCHANGED besideCoffee

GetCost ==
    /\ coffeeCall' = [op |-> "getCost", cost |-> getCost(coffee),
                      description |-> ""]
    /\ UNCHANGED coffee
    /\ UNCHANGED besideCoffee

GetDescription ==
    /\ coffeeCall' = [op |-> "getDescription", cost |-> Double(0, 0, 0),
                      description |-> getDescription(coffee)]
    /\ UNCHANGED coffee
    /\ UNCHANGED besideCoffee

NextCoffee ==
    \/ Wrap
    \/ GetCost
    \/ GetDescription

SpecCoffee == InitIdle /\ [][NextCoffee]_vars

---------------------------------------------------------------------------
(* Media player: the client calls the facade; the subsystem calls it       *)
(* issues are appended to the trace.                                       *)

Facade(op, fileName, argument, issued) ==
    /\ Len(mediaTrace) < MaxTrace
    /\ mediaTrace' = mediaTrace \o issued
    /\ mediaCall' = [op |-> op, fileName |-> fileName,
                     argument |-> argument, issued |-> issued]
    /\ UNCHANGED besideMedia

PlayAudio ==
    \E fileName \in FileNames, targetFormat \in Formats \cup {Undefined} :
        Facade("playAudio", fileName, targetFormat,
               MediaPlayerFacade_playAudio(fileName, targetFormat))

PlayVideo ==
    \E fileName \in FileNames, resolution \in Resolutions :
        Facade("playVideo", fileName, resolution,
               MediaPlayerFacade_playVideo(fileName, resolution))

StopPlayback ==
    Facade("stopPlayback", "", "", MediaPlayerFacade_stopPlayback)

NextMedia ==
    \/ PlayAudio
    \/ PlayVideo
    \/ StopPlayback

SpecMedia == InitIdle /\ [][NextMedia]_vars

---------------------------------------------------------------------------
(* Properties of the document lifecycle *)

Actor(role) == call.currentUser = role

Owner == call.currentUser = "Author" /\ call.currentUserName = author

Unchanged == state = call.state /\ content = call.content

(* C1 (as claimed): archive by an Admin from Draft, Moderation or Published *)
(* leaves the document Archived; every other archive call changes neither  *)
(* state nor content.                                                      *)
C1_ArchiveByAdminArchives ==
    call.op = "archive" =>
        IF call.state \in {"Draft", "Moderation", "Published"} /\ Actor("Admin")
        THEN state = "Archived"
        ELSE Unchanged

(* C2: reject succeeds iff the document was in Moderation and the actor is *)
(* an Admin of any name, and then the state is Draft; every other reject   *)
(* is denied and changes neither state nor content.                        *)
C2_RejectContract ==
    call.op = "reject" =>
        IF call.state = "Moderation" /\ Actor("Admin")
        THEN Succeeded(console) /\ state = "Draft"
        ELSE Denied(console) /\ Unchanged

C2_Witness ==
    /\ call.op = "reject"
    /\ call.state = "Moderation"
    /\ Actor("Admin")
    /\ call.currentUserName /= author
    /\ state = "Draft"

(* C3: setContent succeeds iff the document was in Draft and the actor is  *)
(* the Author whose name is the document's author; then content is the     *)
(* given text and the state is still Draft.  Every other setContent leaves *)
(* content unchanged and reports a denial.                                 *)
C3_SetContentContract ==
    call.op = "setContent" =>
        IF call.state = "Draft" /\ Owner
        THEN Succeeded(console) /\ content = call.text /\ state = "Draft"
        ELSE Denied(console) /\ content = call.content

C3_Witness ==
    /\ call.op = "setContent"
    /\ call.state = "Draft"
    /\ Owner
    /\ call.text /= call.content
    /\ content = call.text

(* C4: requestReview succeeds iff the document was in Draft and the actor  *)
(* is the Author whose name is the document's author; then the state is    *)
(* Moderation.  Every other requestReview leaves the state unchanged.      *)
C4_RequestReviewContract ==
    call.op = "requestReview" =>
        IF call.state = "Draft" /\ Owner
        THEN Succeeded(console) /\ state = "Moderation"
        ELSE Denied(console) /\ state = call.state

C4_Witness ==
    /\ call.op = "requestReview"
    /\ call.state = "Draft"
    /\ Owner
    /\ state = "Moderation"

(* C5: approve succeeds iff the document was in Moderation and the actor   *)
(* is a Moderator or an Admin of any name; then the state is Published.    *)
(* An Author's approve, and approve in any other state, leaves the state   *)
(* unchanged.                                                              *)
C5_ApproveContract ==
    call.op = "approve" =>
        IF call.state = "Moderation" /\ (Actor("Moderator") \/ Actor("Admin"))
        THEN Succeeded(console) /\ state = "Published"
        ELSE Denied(console) /\ state = call.state

C5_Witness ==
    /\ call.op = "approve"
    /\ call.state = "Moderation"
    /\ Actor("Admin")
    /\ call.currentUserName /= author
    /\ state = "Published"

(* C6: unpublish succeeds iff the document was Published and the actor is  *)
(* an Admin of any name; then the state is Draft.  Every other unpublish   *)
(* leaves the state unchanged.                                             *)
C6_UnpublishContract ==
    call.op = "unpublish" =>
        IF call.state = "Published" /\ Actor("Admin")
        THEN Succeeded(console) /\ state = "Draft"
        ELSE Denied(console) /\ state = call.state

C6_Witness ==
    /\ call.op = "unpublish"
    /\ call.state = "Published"
    /\ Actor("Admin")
    /\ call.currentUserName /= author
    /\ state = "Draft"

(* C7: right after construction for author a, before any action, the state *)
(* is Draft, the content is the empty string and the author is a.          *)
C7_AfterConstruction ==
    call.op = "new" =>
        state = "Draft" /\ content = "" /\ author = call.currentUserName

C7_Witness ==
    /\ call.op = "new"
    /\ call.currentUserName = UserNames[2]
    /\ author = UserNames[2]
    /\ state = "Draft"

(* C8: after any run of denied calls the state and the content are those   *)
(* the document had before the run.                                        *)
C8_DeniedRunChangesNothing ==
    state = base.state /\ content = base.content

C8_Witness ==
    /\ denials >= 2
    /\ call.op = "setContent"
    /\ call.text /= call.content
    /\ Denied(console)
    /\ base.state = "Moderation"
    /\ base.content /= ""
    /\ state = "Moderation"

(* C9: no action call throws: each one returns with a reported outcome and *)
(* the document in one of the four lifecycle states.                       *)
C9_NoCallThrows ==
    call.op \notin {"new", "transitionTo"} =>
        /\ ~threw
        /\ Succeeded(console) \/ Denied(console)
        /\ state \in DocumentStateType

C9_Witness ==
    /\ call.op = "archive"
    /\ call.state = "Archived"
    /\ Actor("Admin")
    /\ ~threw
    /\ Denied(console)
    /\ state = "Archived"

(* C10: the current state is always one of Draft, Moderation, Published,   *)
(* Archived; it is Draft at construction, and a call that leaves it        *)
(* different from what it found is a call that succeeded.                  *)
C10_StateDefinedAndStable ==
    /\ state \in DocumentStateType
    /\ call.op = "new" => state = "Draft"
    /\ (call.op /= "new" /\ state /= call.state) => Succeeded(console)

C10_Witness ==
    /\ call.op = "unpublish"
    /\ call.state = "Published"
    /\ state = "Draft"
    /\ Succeeded(console)

ActionOps ==
    {"setContent", "requestReview", "approve", "reject", "unpublish", "archive"}

(* C11: Archived is terminal for the six actions: a call that finds the    *)
(* document Archived is denied, whoever makes it, and leaves it Archived    *)
(* with the same content.                                                  *)
C11_ArchivedIsTerminal ==
    (call.op \in ActionOps /\ call.state = "Archived") =>
        Denied(console) /\ state = "Archived" /\ content = call.content

C11_Witness ==
    /\ call.op = "unpublish"
    /\ call.state = "Archived"
    /\ Actor("Admin")
    /\ Denied(console)
    /\ state = "Archived"

(* C12: every action call, successful or denied, writes exactly one line   *)
(* to the console.                                                         *)
C12_OneReportPerCall ==
    call.op \in ActionOps => Len(console) = 1

C12_Witness ==
    /\ call.op = "approve"
    /\ call.state = "Draft"
    /\ Denied(console)
    /\ Len(console) = 1

(* C13: the status query changes neither state, content nor author, and   *)
(* a status query that directly follows another prints the same snapshot.  *)
C13_StatusReadOnly ==
    [][call'.op = "printStatus" =>
          /\ state' = state
          /\ content' = content
          /\ author' = author
          /\ call.op = "printStatus" => console' = console]_vars

C13_Witness ==
    /\ call.op = "printStatus"
    /\ statusRun >= 2
    /\ Len(content) > 30
    /\ state = "Moderation"

(* C14: the content preview in the status line is the whole content when   *)
(* the content has at most 30 characters, and otherwise its first 30       *)
(* characters followed by "...".                                           *)
PreviewShown ==
    SubSeq(console[1], Len(StatusHead(Here)) + 1, Len(console[1]) - 1)

C14_PreviewTruncation ==
    call.op = "printStatus" =>
        IF Len(content) <= 30
        THEN PreviewShown = content
        ELSE /\ Len(PreviewShown) = 33
             /\ SubSeq(PreviewShown, 1, 30) = SubSeq(content, 1, 30)
             /\ SubSeq(PreviewShown, 31, 33) = "..."

C14_Witness ==
    /\ call.op = "printStatus"
    /\ Len(content) = 31
    /\ PreviewShown = "123456789012345678901234567890..."

(* C15 (as claimed): after every action call the refactored document and   *)
(* the original Document given the same calls are in the same lifecycle    *)
(* state with the same content.                                            *)
C15_SameAsOriginal ==
    original /= NoDocument =>
        state = original.state /\ content = original.content

(* C16 (as claimed): a Moderator's reject of a document in Moderation      *)
(* succeeds and moves it back to Draft.                                    *)
C16_ModeratorRejects ==
    (call.op = "reject" /\ call.state = "Moderation" /\ Actor("Moderator")) =>
        Succeeded(console) /\ state = "Draft"

(* C24: transitionTo performs no validation: handed any of the four       *)
(* states while the document is in any state, Archived included, it makes  *)
(* that state the current one and changes neither content nor author.      *)
C24_TransitionToUnconditional ==
    [][call'.op = "transitionTo" =>
          /\ state' = call'.text
          /\ content' = content
          /\ author' = author]_vars

C24_Witness ==
    /\ call.op = "transitionTo"
    /\ call.state = "Archived"
    /\ call.text = "Moderation"
    /\ state = "Moderation"
    /\ content /= ""

(* C25 (as claimed): the status line names the current lifecycle state by  *)
(* the name its getName() returns.                                         *)
C25_StatusNamesState ==
    call.op = "printStatus" =>
        console[1] =
            "--- STATUS --- Document (Author: " \o author \o "): State: "
                \o state \o ", Content: \"" \o contentPreview(content) \o "\""

(* C27: under the six actions the document is never Archived, and from     *)
(* every reachable state it is in Draft or one action away from Draft.     *)
C27_NeverArchived ==
    /\ state /= "Archived"
    /\ state = "Draft" \/ ENABLED (Next /\ state' = "Draft")

C27_Witness ==
    /\ call.op = "archive"
    /\ Actor("Admin")
    /\ call.state = "Published"
    /\ state = "Published"

(* C28: the document enters Published only from Moderation, by an approve  *)
(* of a Moderator or Admin, and it enters Moderation only from Draft, by   *)
(* a requestReview of its own author.                                      *)
C28_PublishedOnlyViaReview ==
    [][/\ (state' = "Published" /\ state /= "Published") =>
             /\ state = "Moderation"
             /\ call'.op = "approve"
             /\ call'.currentUser \in {"Moderator", "Admin"}
       /\ (state' = "Moderation" /\ state /= "Moderation") =>
             /\ state = "Draft"
             /\ call'.op = "requestReview"
             /\ call'.currentUser = "Author"
             /\ call'.currentUserName = author]_vars

C28_Witness ==
    /\ call.op = "approve"
    /\ call.state = "Moderation"
    /\ Actor("Moderator")
    /\ state = "Published"
    /\ content /= ""

(* C29: requestReview, approve, reject, unpublish and archive never change *)
(* content, no action changes author, and while the document is in         *)
(* Moderation or Published its content stays what it was when review was   *)
(* requested.                                                              *)
C29_ContentAndAuthorFrame ==
    [][/\ author' = author
       /\ call'.op \in ActionOps \ {"setContent"} => content' = content
       /\ (call'.op \in ActionOps /\ state \in {"Moderation", "Published"}) =>
             content' = content]_vars

C29_Witness ==
    /\ call.op = "unpublish"
    /\ call.state = "Published"
    /\ Actor("Admin")
    /\ state = "Draft"
    /\ content /= ""
    /\ content = call.content

---------------------------------------------------------------------------
(* Properties of the other exercises *)

(* C17: at most one ConfigurationManager is ever constructed, every        *)
(* getInstance call returns that one, and once loadConfig has been called  *)
(* through some reference, getSetting through any reference reads the      *)
(* loaded settings.                                                        *)
C17_Singleton ==
    /\ Len(managers) <= 1
    /\ \A i \in 1..Len(refs) : instance /= 0 /\ refs[i] = instance
    /\ (cfgCall.op = "getSetting" /\ loadedVia /= 0) =>
          cfgCall.result =
              CASE cfgCall.setting = "appName" -> "my app"
                [] cfgCall.setting = "version" -> "v3"
                [] OTHER -> "undefined"

C17_Witness ==
    /\ Len(refs) >= 2
    /\ cfgCall.op = "getSetting"
    /\ loadedVia /= 0
    /\ cfgCall.ref /= loadedVia
    /\ cfgCall.setting = "version"
    /\ cfgCall.result = "v3"

(* C18: pressButton executes, exactly once, the command most recently     *)
(* handed to setCommand and no other; when no command was ever set it      *)
(* raises an error and leaves the light as it was.                         *)
C18_PressRunsLatestCommand ==
    remoteCall.op = "pressButton" =>
        IF lastSet = NoCommand
        THEN /\ remoteCall.threw /= ""
             /\ remoteCall.executed = <<>>
             /\ light = remoteCall.light
        ELSE /\ remoteCall.threw = ""
             /\ remoteCall.executed = <<lastSet>>

C18_Witness ==
    /\ remoteCall.op = "pressButton"
    /\ lastSet = SetBrightnessCommand(30)
    /\ remoteCall.executed = <<SetBrightnessCommand(30)>>
    /\ remoteCall.light = [isOn |-> TRUE, brightness |-> 100]
    /\ light = [isOn |-> TRUE, brightness |-> 30]

Times(d) == Cardinality({i \in 1..Len(notified) : notified[i].display = d})

SawNewMeasurements ==
    \A i \in 1..Len(notified) :
        /\ notified[i].temperature = measured.temperature
        /\ notified[i].humidity = measured.humidity

(* C19 (as claimed): a setMeasurements call notifies each display attached *)
(* so far exactly once, in attachment order, each seeing the new           *)
(* measurements, and no display attached later.                            *)
C19_EachDisplayOnce ==
    /\ \A d \in DisplayObjects :
          Times(d) = IF \E i \in 1..Len(measured.displays) :
                           measured.displays[i] = d
                     THEN 1 ELSE 0
    /\ [i \in 1..Len(notified) |-> notified[i].display] = measured.displays
    /\ SawNewMeasurements

(* C19 (amended): a setMeasurements call makes one notification for each   *)
(* attachment made so far, in attachment order (a display attached twice   *)
(* is notified twice), each seeing the new measurements; attachments made  *)
(* later add no notification for that call.                                *)
C19_EachAttachmentOnce ==
    /\ Len(notified) = Len(measured.displays)
    /\ \A i \in 1..Len(notified) : notified[i].display = measured.displays[i]
    /\ SawNewMeasurements
    /\ Len(measured.displays) <= Len(displays)
    /\ \A i \in 1..Len(measured.displays) : measured.displays[i] = displays[i]

C19_Witness ==
    /\ weatherCall.op = "attach"
    /\ Len(notified) = 2
    /\ Len(displays) = 3
    /\ notified[1].display = 2
    /\ notified[2].display = 1
    /\ notified[2].temperature = 28
    /\ notified[2].humidity = 60
    /\ notified[2].line = "Temperature Display: Current Temp: 28deg C"

(* C20: processFile runs openFile, parseData, analyzeData, generateReport, *)
(* publishReport and closeFile, once each and in that order; analyzeData   *)
(* is given the records parseData returned, generateReport the analysis    *)
(* result, and publishReport the generated report.                         *)
C20_TemplateOrder ==
    procCall.op = "processFile" =>
        /\ [i \in 1..Len(trace) |-> trace[i].step] =
              <<"openFile", "parseData", "analyzeData", "generateReport",
                "publishReport", "closeFile">>
        /\ trace[2].ret = procCall.parsed
        /\ trace[3].arg = trace[2].ret
        /\ trace[4].arg = trace[3].ret
        /\ trace[4].ret = procCall.report
        /\ trace[5].arg = trace[4].ret

C20_Witness ==
    /\ procCall.op = "processFile"
    /\ Len(procCall.parsed) = 2
    /\ trace[3].ret.totalRecords = 2
    /\ trace[3].ret.primaryMetricValue = Num(400)
    /\ trace[5].arg = "----- CSV Data Report -----"
    /\ trace[6].step = "closeFile"

(* C26: the light's brightness starts at 100 and stays within 0..100;     *)
(* an executed SetBrightnessCommand(level) sets it to 0 for a negative     *)
(* level, to 100 for a level above 100 and to level otherwise, and leaves  *)
(* the on/off state alone; turning on or off leaves the brightness alone.  *)
C26_BrightnessClamped ==
    /\ light.brightness \in 0..100
    /\ remoteCall.op = "none" => light.brightness = 100
    /\ \A c \in Commands :
          (remoteCall.op = "pressButton" /\ remoteCall.executed = <<c>>) =>
              IF c.kind = "SetBrightness"
              THEN /\ light.brightness =
                          IF c.level < 0 THEN 0
                          ELSE IF c.level > 100 THEN 100 ELSE c.level
                   /\ light.isOn = remoteCall.light.isOn
              ELSE light.brightness = remoteCall.light.brightness

C26_Witness ==
    /\ remoteCall.op = "pressButton"
    /\ remoteCall.executed = <<SetBrightnessCommand(150)>>
    /\ remoteCall.light = [isOn |-> TRUE, brightness |-> 30]
    /\ light = [isOn |-> TRUE, brightness |-> 100]

SetterOps ==
    {"setCPU", "setRAM", "setStorage", "setGPU", "setPowerSupply",
     "installOS", "enableWifi", "disableWifi", "enableBluetooth",
     "disableBluetooth"}

LastOr(field, default) ==
    IF lastValue[field] = <<>> THEN default ELSE lastValue[field][1]

Assembled ==
    [cpu |-> LastOr("cpu", ""), ramGB |-> LastOr("ramGB", 0),
     storageGB |-> LastOr("storageGB", 0), gpu |-> LastOr("gpu", Null),
     powerSupplyWatts |-> LastOr("powerSupplyWatts", 500),
     operatingSystem |-> LastOr("operatingSystem", "Windows 10"),
     hasWifi |-> LastOr("hasWifi", TRUE),
     hasBluetooth |-> LastOr("hasBluetooth", TRUE)]

(* C21: every builder setter returns the builder it was called on, and     *)
(* the Computer returned by build() holds for each property the argument   *)
(* of the last setter call for it, or the default when there was none      *)
(* (no GPU, 500 W, "Windows 10", Wi-Fi on, Bluetooth on).                  *)
C21_BuiltHoldsLastValues ==
    /\ builderCall.op \in SetterOps =>
           builderCall.returned = Ref("ComputerBuilder", builder.object)
    /\ builderCall.op = "build" =>
           /\ builderCall.returned.class = "Computer"
           /\ computers[builderCall.returned.object] = Assembled

C21_Witness ==
    /\ builderCall.op = "build"
    /\ computers[builderCall.returned.object] =
           [cpu |-> "AMD Ryzen 9 7950X", ramGB |-> 8, storageGB |-> 256,
            gpu |-> Null, powerSupplyWatts |-> 400,
            operatingSystem |-> "Windows 10 Pro",
            hasWifi |-> TRUE, hasBluetooth |-> FALSE]

(* C22 (as claimed): a SimpleCoffee wrapped in Milk, then Sugar, then      *)
(* Mocha costs $9.5 and is described "Simple Coffee, Milk, Sugar, Mocha".  *)
C22_CustomCoffeeCosts95 ==
    coffee = <<"Milk", "Sugar", "Mocha">> =>
        /\ coffeeCall.op = "getCost" => coffeeCall.cost = Double(19, 0, 0)
        /\ coffeeCall.op = "getDescription" =>
               coffeeCall.description = "Simple Coffee, Milk, Sugar, Mocha"

(* C23 (as claimed): the facade's playAudio issues the subsystem calls of  *)
(* the MultimediaApp audio path: a conversion of the file to the target    *)
(* format, then the playing of the converted file in the target format.    *)
C23_FacadePlaysConverted ==
    mediaCall.op = "playAudio" =>
        mediaCall.issued =
            MultimediaApp_playMedia_audio(
                mediaCall.fileName, DefaultTo(mediaCall.argument, "mp3"))

(* C30: build() does not reset the builder: every build() call returns     *)
(* the one Computer the builder holds, and a setter called after build()   *)
(* shows in the Computer already returned.                                 *)
C30_BuildDoesNotReset ==
    \A i \in 1..Len(built) :
        /\ built[i] = built[1]
        /\ built[i] = builder.computer
        /\ getSpecs(computers[built[i]]) = getSpecs(Assembled)

C30_Witness ==
    /\ Len(built) = 2
    /\ built[1] = built[2]
    /\ builderCall.op = "installOS"
    /\ getSpecs(computers[built[1]]) =
           "Computer Specs: CPU: Intel i5-12400, RAM: 8GB, Storage: 0GB, "
               \o "GPU: Integrated, PSU: 500W, OS: Windows 10 Pro, "
               \o "Wi-Fi: Yes, Bluetooth: Yes."

====
